---------------------------- MODULE Spec2Model ----------------------------
(***************************************************************************)
(* A model of the powder snowfall tracker: the provider normalizers        *)
(* (powder/providers/*.py), the dispatch loop fetch_all_forecasts and its   *)
(* callers display_forecasts and build_resort_forecast_data                *)
(* (powder/cli.py), and the aggregator calculate_avg_forecasts             *)
(* (powder/forecast.py).                                                   *)
(*                                                                         *)
(* Representation.  A calendar date is a day number.  A snowfall amount in *)
(* inches is held in tenths of an inch (every normalizer rounds to one     *)
(* decimal), an upstream centimetre or millimetre value in hundredths.  A  *)
(* mean is an exact fraction [num, den] in lowest terms.  A Python dict is *)
(* a sequence of [k, v] entries in insertion order.  An Optional value is  *)
(* a sequence of length 0 (None) or 1.                                     *)
(***************************************************************************)
EXTENDS Integers, Sequences, FiniteSets, TLC

VARIABLES
    resort,                  \* the SkiResort handed to fetch_all_forecasts
    pc,                      \* position of the run
    providers_with_max_days, \* the list fetch_all_forecasts iterates
    next_provider,           \* index of the next list entry to invoke
    all_forecasts,           \* dict date -> list of DailyForecast
    calls,                   \* log of the normalizer invocations made
    upstream,                \* the response the last invocation received
    results,                 \* what calculate_avg_forecasts returned
    output,                  \* what the caller printed or built for the resort
    cache,                   \* cache.py module state: _cache_enabled, _session
    trace,                   \* log of the calls made into cache.py and by main
    main                     \* main's arguments and locals

vars == <<resort, pc, providers_with_max_days, next_provider, all_forecasts,
          calls, upstream, results, output, cache, trace, main>>

----------------------------------------------------------------------------
(* Bounds of the model. *)

MaxDate == 2
MaxArrivals == 3
MaxEntries == 2
MaxUpstreamDays == 11
MaxCacheCalls == 5
MaxResorts == 2

\* date.today(): day 1 is in the past, day 2 is today.
Today == 2

Dates == 1..MaxDate
Amounts == {0, 15}
Sources == {"Open-Meteo", "ECMWF"}

----------------------------------------------------------------------------
(* Generic helpers. *)

RECURSIVE SeqSum(_)
SeqSum(s) == IF s = <<>> THEN 0 ELSE Head(s) + SeqSum(Tail(s))

RECURSIVE GCD(_, _)
GCD(a, b) == IF b = 0 THEN a ELSE GCD(b, a % b)

Abs(x) == IF x < 0 THEN -x ELSE x

Min(a, b) == IF a <= b THEN a ELSE b

Range(s) == {s[i] : i \in DOMAIN s}

RECURSIVE Concat(_)
Concat(ss) == IF ss = <<>> THEN <<>> ELSE Head(ss) \o Concat(Tail(ss))

BoundedSeq(S, n) == UNION {[1..m -> S] : m \in 0..n}

----------------------------------------------------------------------------
(* forecast.py *)

DailyForecast(d, inches, src) ==
    [date |-> d, snowfall_inches |-> inches, source |-> src]

\* statistics.mean over a list of amounts, as an exact fraction.
mean_of_distinct(values) ==
    LET set == Range(values)
        RECURSIVE SetSum(_)
        SetSum(S) == IF S = {} THEN 0
                     ELSE LET x == CHOOSE y \in S : TRUE IN x + SetSum(S \ {x})
        total == SetSum(set)
        n == Cardinality(set)
        g == GCD(Abs(total), n)
    IN [num |-> total \div g, den |-> n \div g]

mean(values) ==
    LET total == SeqSum(values)
        n == Len(values)
        g == GCD(Abs(total), n)
    IN [num |-> total \div g, den |-> n \div g]

\* ForecastResult.from_forecasts: None (<<>>) for an empty list.
from_forecasts_placeholder(target_date, forecasts) ==
    << [date |-> target_date,
        forecasts |-> forecasts,
        avg_snowfall_inches |->
            IF forecasts = <<>> THEN [num |-> 0, den |-> 1]
            ELSE mean([i \in DOMAIN forecasts |-> forecasts[i].snowfall_inches])] >>

from_forecasts(target_date, forecasts) ==
    IF forecasts = <<>> THEN <<>>
    ELSE LET snowfall_values == [i \in DOMAIN forecasts |-> forecasts[i].snowfall_inches]
             avg_value == mean(snowfall_values)
         IN << [date |-> target_date,
                forecasts |-> forecasts,
                avg_snowfall_inches |-> avg_value] >>

\* dict helpers: keys in insertion order, lookup, defaultdict(list) access.
DictKeys(d) == [i \in DOMAIN d |-> d[i].k]

DictHas(d, key) == \E i \in DOMAIN d : d[i].k = key

DictGet(d, key) == d[CHOOSE i \in DOMAIN d : d[i].k = key].v

\* all_forecasts[key]: a defaultdict creates the key with an empty list.
DictTouch(d, key) ==
    IF DictHas(d, key) THEN d ELSE Append(d, [k |-> key, v |-> <<>>])

\* all_forecasts[key].append(x)
DictAppendReplacingSource(d, key, x) ==
    LET t == DictTouch(d, key)
    IN [i \in DOMAIN t |->
          IF t[i].k = key
          THEN [k |-> key,
                v |-> Append(SelectSeq(t[i].v, LAMBDA f : f.source # x.source), x)]
          ELSE t[i]]

DictAppendOverwriting(d, key, x) ==
    LET t == DictTouch(d, key)
    IN [i \in DOMAIN t |->
          IF t[i].k = key THEN [k |-> key, v |-> <<x>>] ELSE t[i]]

DictAppend(d, key, x) ==
    LET t == DictTouch(d, key)
    IN [i \in DOMAIN t |->
          IF t[i].k = key THEN [k |-> key, v |-> Append(t[i].v, x)] ELSE t[i]]

\* sorted(): ascending insertion sort.
RECURSIVE InsertSorted(_, _)
InsertSorted(x, s) ==
    IF s = <<>> THEN <<x>>
    ELSE IF x <= Head(s) THEN <<x>> \o s
    ELSE <<Head(s)>> \o InsertSorted(x, Tail(s))

RECURSIVE SortAscending(_)
SortAscending(s) ==
    IF s = <<>> THEN <<>> ELSE InsertSorted(Head(s), SortAscending(Tail(s)))

unsorted(s) == s

sorted(s) == SortAscending(s)

\* calculate_avg_forecasts
calculate_avg_forecasts(grouping) ==
    LET order == sorted(DictKeys(grouping))
        per_date == [i \in DOMAIN order |->
                       from_forecasts(order[i], DictGet(grouping, order[i]))]
    IN Concat(per_date)

----------------------------------------------------------------------------
(* cache.py *)

DEFAULT_TTL_HOURS == 12

\* The module globals at import: _cache_enabled = True, _session = None.
StartUp == [enabled |-> TRUE, session |-> <<>>]

NoMain == [kind |-> "none"]

\* requests_cache.CachedSession(...) as get_session builds it: `id` tells
\* one constructed object from another.
CachedSession(id, enabled) ==
    IF enabled
    THEN [id |-> id, expire_after |-> DEFAULT_TTL_HOURS * 3600,
          allowable_codes |-> {200}, stale_if_error |-> TRUE, disabled |-> FALSE]
    ELSE [id |-> id, expire_after |-> 0,
          allowable_codes |-> {200}, stale_if_error |-> FALSE, disabled |-> TRUE]

\* An entry of the log: a call of set_cache_enabled or get_session, or the
\* construction of a session.
Event(op, arg, session) == [op |-> op, arg |-> arg, session |-> session]

Constructed(log) == SelectSeq(log, LAMBDA e : e.op = "construct")

\* set_cache_enabled(enabled)
set_cache_enabled_if_changed(c, enabled) ==
    IF c.enabled = enabled THEN c ELSE [enabled |-> enabled, session |-> <<>>]

set_flag_only(c, enabled) == [enabled |-> enabled, session |-> c.session]

set_cache_enabled_ignoring_argument(c, enabled) == [enabled |-> c.enabled, session |-> <<>>]

set_cache_enabled(c, enabled) == [enabled |-> enabled, session |-> <<>>]

\* get_session(): the module state afterwards and the session returned;
\* `id` is the identity of the object constructed if one is.
get_session_fresh(c, id) ==
    LET s == CachedSession(id, c.enabled)
    IN [cache |-> [enabled |-> c.enabled, session |-> <<s>>], session |-> s, built |-> TRUE]

get_session(c, id) ==
    IF c.session = <<>>
    THEN LET s == CachedSession(id, c.enabled)
         IN [cache |-> [enabled |-> c.enabled, session |-> <<s>>],
             session |-> s, built |-> TRUE]
    ELSE [cache |-> c, session |-> c.session[1], built |-> FALSE]

\* The log after a get_session call that returned r.
LogGetSession(log, r) ==
    (IF r.built THEN Append(log, Event("construct", <<>>, <<r.session>>)) ELSE log)
    \o << Event("get_session", <<>>, <<r.session>>) >>

----------------------------------------------------------------------------
(* The aggregator as a pure function: any grouping a dict can hold.  The   *)
(* grouping is what a sequence of arrivals leaves in a defaultdict(list):  *)
(* an arrival either appends an observation under its date or only touches *)
(* a date, which leaves a key with an empty list.                          *)

Arrivals ==
    [op : {"append"}, date : Dates, snowfall_inches : Amounts, source : Sources]
    \cup [op : {"touch"}, date : Dates, snowfall_inches : {0}, source : {"-"}]

RECURSIVE GroupingOf(_)
GroupingOf(arr) ==
    IF arr = <<>> THEN <<>>
    ELSE LET rest == GroupingOf(SubSeq(arr, 1, Len(arr) - 1))
             a == arr[Len(arr)]
         IN IF a.op = "append"
            THEN DictAppend(rest, a.date,
                            DailyForecast(a.date, a.snowfall_inches, a.source))
            ELSE DictTouch(rest, a.date)

Groupings == {GroupingOf(arr) : arr \in BoundedSeq(Arrivals, MaxArrivals)}

NoResort == [country |-> "-", timezone |-> "-"]

NoUpstream == [kind |-> "none"]

NoOutput == [kind |-> "none"]

InitAgg ==
    /\ resort = NoResort
    /\ pc = "returned"
    /\ providers_with_max_days = <<>>
    /\ next_provider = 1
    /\ all_forecasts \in Groupings
    /\ calls = <<>>
    /\ upstream = NoUpstream
    /\ results = <<>>
    /\ output = NoOutput
    /\ cache = StartUp
    /\ trace = <<>>
    /\ main = NoMain

\* The caller hands the grouping to calculate_avg_forecasts.
CalculateAvg ==
    /\ pc = "returned"
    /\ results' = calculate_avg_forecasts(all_forecasts)
    /\ pc' = "done"
    /\ UNCHANGED <<cache, trace, main>>
    /\ UNCHANGED <<output, resort, providers_with_max_days, next_provider,
                   all_forecasts, calls, upstream>>

NextAgg == CalculateAvg

SpecAgg == InitAgg /\ [][NextAgg]_vars

----------------------------------------------------------------------------
(* cache.py driven on its own. *)

\* The calls into cache.py in any order, as the cache tests make them.
InitCache ==
    /\ resort = NoResort
    /\ pc = "cache"
    /\ providers_with_max_days = <<>>
    /\ next_provider = 1
    /\ all_forecasts = <<>>
    /\ calls = <<>>
    /\ upstream = NoUpstream
    /\ results = <<>>
    /\ output = NoOutput
    /\ cache = StartUp
    /\ trace = <<>>
    /\ main = NoMain

CacheCalls(log) == SelectSeq(log, LAMBDA e : e.op # "construct")

SetCacheEnabled ==
    /\ pc = "cache"
    /\ Len(CacheCalls(trace)) < MaxCacheCalls
    /\ \E enabled \in BOOLEAN :
          /\ cache' = set_cache_enabled(cache, enabled)
          /\ trace' = Append(trace, Event("set_cache_enabled", <<enabled>>, <<>>))
    /\ UNCHANGED <<resort, pc, providers_with_max_days, next_provider, all_forecasts,
                   calls, upstream, results, output, main>>

GetSession ==
    /\ pc = "cache"
    /\ Len(CacheCalls(trace)) < MaxCacheCalls
    /\ LET r == get_session(cache, Len(Constructed(trace)) + 1) IN
          /\ cache' = r.cache
          /\ trace' = LogGetSession(trace, r)
    /\ UNCHANGED <<resort, pc, providers_with_max_days, next_provider, all_forecasts,
                   calls, upstream, results, output, main>>

NextCache == SetCacheEnabled \/ GetSession

SpecCache == InitCache /\ [][NextCache]_vars

----------------------------------------------------------------------------
(* providers/*.py: the upstream responses and the normalizers. *)

OPEN_METEO_MAX_DAYS == 16
ECMWF_MAX_DAYS == 10
NWS_MAX_DAYS == 7
ECMWF_FORECAST_DAYS_CAP == 10
BOM_FORECAST_DAYS_CAP == 7
ARCHIVE_DELAY_DAYS == 5
HISTORICAL_DAYS == 14

\* session.get / raise_for_status / response.json() outcomes.
FailureKinds == {"network_error", "timeout", "http_error", "bad_json"}

\* A date string of the body: "YYYY-MM-DD" of a day, or text that
\* datetime.strptime(_, "%Y-%m-%d") rejects.
IsoDate(d) == [fmt |-> "iso", day |-> d]
GarbageDate == [fmt |-> "garbage", day |-> 0]

\* A JSON value of the body: a number (in hundredths), null, or a string.
Num(v) == [t |-> "num", v |-> v]
Null == [t |-> "null", v |-> 0]
Str == [t |-> "str", v |-> 0]

\* Python's "x or 0": null and 0 are falsy, a non-empty string is kept.
OrZero(x) == IF x.t = "null" THEN Num(0) ELSE x

\* round(): to the nearest integer of n/d, ties to even.
RoundHalfEven(n, d) ==
    LET a == Abs(n)
        q == a \div d
        r == a % d
        up == IF 2 * r > d \/ (2 * r = d /\ q % 2 = 1) THEN q + 1 ELSE q
    IN IF n < 0 THEN -up ELSE up

\* round(cm * 0.393701, 1): hundredths of a centimetre to tenths of an inch.
CmToInchesTruncated(cm) == (cm * 393701) \div 10000000

CmToInches(cm) == RoundHalfEven(cm * 393701, 10000000)

\* round(total, 1) of a sum of mm * 0.0393701: hundredths of a millimetre
\* to tenths of an inch.
MmToInches(mm) == RoundHalfEven(mm * 393701, 100000000)

\* What a normalizer call did: the list it returned, or that it raised.
Returned(forecasts, failed) ==
    [status |-> IF failed THEN "failed" ELSE "ok", forecasts |-> forecasts]
Raised == [status |-> "raised", forecasts |-> <<>>]

\* zip(dates, snowfall_cm): pairs up to the shorter list.
Zip(a, b) == [i \in 1..Min(Len(a), Len(b)) |-> [date_str |-> a[i], snow_cm |-> b[i]]]

\* The parsing loop shared by the Open-Meteo, ECMWF and BOM normalizers and
\* the historical variant.  It runs outside the try block: strptime on a
\* rejected date string raises ValueError and a string times a float raises
\* TypeError.
ParseDaily(resp, name) ==
    LET pairs == Zip(resp.time, resp.snowfall_sum)
    IN IF \E i \in DOMAIN pairs :
              \/ pairs[i].date_str.fmt # "iso"
              \/ OrZero(pairs[i].snow_cm).t # "num"
       THEN Raised
       ELSE Returned([i \in DOMAIN pairs |->
                         DailyForecast(pairs[i].date_str.day,
                                       CmToInches(OrZero(pairs[i].snow_cm).v), name)],
                     FALSE)

\* The body of get_snowfall_forecast after the request parameters are set:
\* the try block swallows every failure of the fetch and returns [].
FetchDaily(resp, name) ==
    IF resp.kind \in FailureKinds THEN Returned(<<>>, TRUE)
    ELSE ParseDaily(resp, name)

\* The forecast_days parameter each normalizer sends upstream (NWS sends
\* none).
UncappedForecastDays(name, days) == IF name = "NWS" THEN <<>> ELSE <<days>>

ForecastDaysSent(name, days) ==
    CASE name = "Open-Meteo" -> <<days>>
      [] name = "ECMWF" -> <<Min(days, ECMWF_FORECAST_DAYS_CAP)>>
      [] name = "BOM" -> <<Min(days, BOM_FORECAST_DAYS_CAP)>>
      [] OTHER -> <<>>

\* NWSProvider._get_grid_point: None on a RequestException (requests raises
\* its own JSONDecodeError, a RequestException, for an undecodable body);
\* otherwise a tuple, also when the properties lack the grid identifiers.
GridPoint(grid) ==
    IF grid.kind \in FailureKinds THEN <<>>
    ELSE << [has_ids |-> grid.kind = "ok"] >>

\* The validTime of an NWS entry: an ISO timestamp on a day (with or
\* without the "/PT6H" duration), unparsable text, a missing field (read as
\* ""), or null.
ValidTime(d) == [fmt |-> "iso", day |-> d]
GarbageTime == [fmt |-> "garbage", day |-> 0]
MissingTime == [fmt |-> "missing", day |-> 0]
NullTime == [fmt |-> "null", day |-> 0]

\* The entry loop of NWSProvider.get_snowfall_forecast.  "/" in None raises
\* TypeError before the try block; inside it only ValueError and
\* AttributeError are caught, so a string value times a float raises
\* TypeError once the timestamp has parsed.
NWSEntryRaises(e) ==
    \/ e.validTime.fmt = "null"
    \/ (e.validTime.fmt = "iso" /\ OrZero(e.value).t # "num")

NWSEntrySkipped(e) == e.validTime.fmt \in {"garbage", "missing"}

NWSDailyFirst(entries, d) ==
    LET on == SelectSeq(entries, LAMBDA e : e.validTime.fmt = "iso" /\ e.validTime.day = d)
    IN IF on = <<>> THEN 0 ELSE OrZero(on[1].value).v

\* daily_totals[d] before the conversion factor: the sum of the values of
\* the entries that start on d, a null value read as 0.
NWSDailyTotal(entries, d) ==
    SeqSum([i \in DOMAIN entries |->
               IF entries[i].validTime.fmt = "iso" /\ entries[i].validTime.day = d
               THEN OrZero(entries[i].value).v ELSE 0])

NWSDates(entries) ==
    {entries[i].validTime.day : i \in {j \in DOMAIN entries : entries[j].validTime.fmt = "iso"}}

RECURSIVE SetToSortedSeq(_)
SetToSortedSeq(S) ==
    IF S = {} THEN <<>>
    ELSE LET m == CHOOSE x \in S : \A y \in S : x <= y
         IN <<m>> \o SetToSortedSeq(S \ {m})

\* The entry loop followed by the output loop: dates sorted, past dates
\* dropped, at most `days` kept.
NWSParseKeepingPast(entries, days) ==
    IF \E i \in DOMAIN entries : NWSEntryRaises(entries[i]) THEN Raised
    ELSE LET order == SetToSortedSeq(NWSDates(entries))
             cut == SubSeq(order, 1, Min(Len(order), days))
         IN Returned([i \in DOMAIN cut |->
                         DailyForecast(cut[i], MmToInches(NWSDailyTotal(entries, cut[i])), "NWS")],
                     FALSE)

NWSParse(entries, days) ==
    IF \E i \in DOMAIN entries : NWSEntryRaises(entries[i]) THEN Raised
    ELSE LET order == SetToSortedSeq(NWSDates(entries))
             kept == SelectSeq(order, LAMBDA d : ~(d < Today))
             cut == SubSeq(kept, 1, Min(Len(kept), days))
         IN Returned([i \in DOMAIN cut |->
                         DailyForecast(cut[i], MmToInches(NWSDailyTotal(entries, cut[i])), "NWS")],
                     FALSE)

NWSForecast(resp, days) ==
    IF GridPoint(resp.grid) = <<>> THEN Returned(<<>>, TRUE)
    ELSE IF resp.kind \in FailureKinds THEN Returned(<<>>, TRUE)
    ELSE NWSParse(resp.entries, days)

\* Number of HTTP requests a call makes.
RequestsMade(name, resp) ==
    IF name = "NWS" THEN (IF GridPoint(resp.grid) = <<>> THEN 1 ELSE 2) ELSE 1

\* provider.get_snowfall_forecast(resort, days) against an upstream response.
get_snowfall_forecast(name, days, resp) ==
    IF name = "NWS" THEN NWSForecast(resp, days) ELSE FetchDaily(resp, name)

\* OpenMeteoProvider.get_historical_snowfall(resort, days)
get_historical_with_forecast_label(days, resp) == FetchDaily(resp, "Open-Meteo")

get_historical_snowfall(days, resp) == FetchDaily(resp, "Open-Meteo-Archive")

ECMWF_TIMEZONE == "America/Denver"

HistoricalEnd == Today - ARCHIVE_DELAY_DAYS
HistoricalStart(days) == HistoricalEnd - (days - 1)

\* The timezone parameter of the request: the resort's for Open-Meteo (both
\* endpoints) and BOM, a fixed one for ECMWF, none for NWS.
TimezoneSent(name) ==
    CASE name \in {"Open-Meteo", "BOM"} -> <<resort.timezone>>
      [] name = "ECMWF" -> <<ECMWF_TIMEZONE>>
      [] OTHER -> <<>>

\* The record of one normalizer call kept in the log.
CallRecord(name, method, days, resp, out) ==
    [provider |-> name, method |-> method, days |-> days,
     timezone |-> TimezoneSent(name),
     forecast_days |-> IF method = "forecast" THEN ForecastDaysSent(name, days) ELSE <<>>,
     start_date |-> IF method = "historical" THEN <<HistoricalStart(days)>> ELSE <<>>,
     end_date |-> IF method = "historical" THEN <<HistoricalEnd>> ELSE <<>>,
     requests |-> RequestsMade(name, resp),
     status |-> out.status, forecasts |-> out.forecasts]

----------------------------------------------------------------------------
(* The upstream responses the model draws from. *)

SnowCm == {0, 254}
SnowMm == {0, 1270}

DailyDefects == {"none", "bad_date", "dup_date", "null_snow", "str_snow", "short_snow"}

\* A 200 response of an Open-Meteo endpoint: n consecutive days from
\* `first`, each with `snow` cm, the last entry carrying the defect.
DailyBody(first, n, snow, defect) ==
    [kind |-> "ok",
     time |-> [i \in 1..n |->
                 IF i = n /\ defect = "bad_date" THEN GarbageDate
                 ELSE IF i = n /\ i > 1 /\ defect = "dup_date" THEN IsoDate(first + i - 2)
                 ELSE IsoDate(first + i - 1)],
     snowfall_sum |-> [i \in 1..(IF defect = "short_snow" /\ n > 0 THEN n - 1 ELSE n) |->
                 IF i = n /\ defect = "null_snow" THEN Null
                 ELSE IF i = n /\ defect = "str_snow" THEN Str
                 ELSE Num(snow)]]

FailedResponse(kind) == [kind |-> kind, time |-> <<>>, snowfall_sum |-> <<>>]

DailyResponsesOf(maxn, values) ==
    {FailedResponse(k) : k \in FailureKinds}
    \cup {DailyBody(first, n, snow, defect) :
             first \in Dates, n \in 0..maxn, snow \in values, defect \in DailyDefects}

DailyResponses(maxn) == DailyResponsesOf(maxn, SnowCm)

NWSDefects == {"none", "garbage_time", "missing_time", "null_time", "null_value", "str_value"}

\* A 200 grid forecast: two entries for each of n consecutive days from
\* `first`, each of `mm` millimetres, the last entry carrying the defect.
NWSEntries(first, n, mm, defect) ==
    [i \in 1..(2 * n) |->
        [validTime |->
            IF i = 2 * n /\ defect = "garbage_time" THEN GarbageTime
            ELSE IF i = 2 * n /\ defect = "missing_time" THEN MissingTime
            ELSE IF i = 2 * n /\ defect = "null_time" THEN NullTime
            ELSE ValidTime(first + ((i - 1) \div 2)),
         value |->
            IF i = 2 * n /\ defect = "null_value" THEN Null
            ELSE IF i = 2 * n /\ defect = "str_value" THEN Str
            ELSE Num(mm)]]

\* The entries of a response in the order they are listed: by ascending
\* or by descending timestamp.
NWSOrders == {"ascending", "descending"}

Reverse(s) == [i \in 1..Len(s) |-> s[Len(s) + 1 - i]]

InOrder(entries, order) == IF order = "descending" THEN Reverse(entries) ELSE entries

NWSResponsesOf(maxn, values) ==
    {[grid |-> [kind |-> g], kind |-> "ok", entries |-> <<>>] : g \in FailureKinds}
    \cup {[grid |-> [kind |-> g], kind |-> k, entries |-> <<>>] :
             g \in {"ok", "no_ids"}, k \in FailureKinds}
    \cup {[grid |-> [kind |-> g], kind |-> "ok",
           entries |-> InOrder(NWSEntries(first, n, mm, defect), order)] :
             g \in {"ok", "no_ids"}, first \in Dates, n \in 0..maxn,
             mm \in values, defect \in NWSDefects, order \in NWSOrders}

NWSResponses(maxn) == NWSResponsesOf(maxn, SnowMm)

Responses(name, maxn) ==
    IF name = "NWS" THEN NWSResponses(maxn) ELSE DailyResponses(maxn)

\* The values of the conversion tests, in hundredths of the upstream unit:
\* 0.25, 2.54, 10 and 25.4 cm, 5, 12.7 and 25.4 mm, and a negative value.
DirectCm == {-254, 0, 25, 254, 1000, 2540}
DirectMm == {-1270, 0, 500, 1270, 2540}

\* The increments of one day as the aggregation tests list them: 10, 15, 5
\* and 10 mm, a single 25.4 mm, and a null among numbers.
HourlyPatterns ==
    { <<Num(1000), Num(1500), Num(500), Num(1000)>>,
      <<Num(2540)>>,
      <<Num(1000), Null, Num(1500)>> }

NWSHourly(d, values) ==
    [grid |-> [kind |-> "ok"], kind |-> "ok",
     entries |-> [i \in DOMAIN values |-> [validTime |-> ValidTime(d), value |-> values[i]]]]

\* The responses a normalizer is called with on its own.
DirectResponses(name) ==
    IF name = "NWS"
    THEN NWSResponsesOf(MaxUpstreamDays, DirectMm)
         \cup {NWSHourly(d, values) : d \in Dates, values \in HourlyPatterns}
    ELSE DailyResponsesOf(MaxUpstreamDays, DirectCm)

----------------------------------------------------------------------------
(* resorts.py: filter_resorts.  A str is a sequence of characters, each a   *)
(* letter with its case.                                                   *)

Char(l, cap) == [l |-> l, cap |-> cap]

\* A word written all in capitals, all in small letters, or capitalised.
Caps(ls) == [i \in DOMAIN ls |-> Char(ls[i], TRUE)]
Small(ls) == [i \in DOMAIN ls |-> Char(ls[i], FALSE)]
Capitalised(ls) == [i \in DOMAIN ls |-> Char(ls[i], i = 1)]

\* str.lower(), str.upper(), and the `in` operator on two strs.
lower(text) == [i \in DOMAIN text |-> Char(text[i].l, FALSE)]
upper(text) == [i \in DOMAIN text |-> Char(text[i].l, TRUE)]

Contains(sub, text) ==
    \E k \in 0..(Len(text) - Len(sub)) : SubSeq(text, k + 1, k + Len(sub)) = sub

\* Truth value of an Optional str: None and "" are falsy.
Truthy(opt) == opt # <<>> /\ opt[1] # <<>>

SkiResort(name, country, region, pass_type, timezone) ==
    [name |-> name, country |-> country, region |-> region,
     pass_type |-> pass_type, timezone |-> timezone]

filter_resorts_state_first(resorts, name_filter, country_filter, region_filter, pass_filter, state_filter) ==
    LET region == IF Truthy(state_filter) THEN state_filter ELSE region_filter
        by_name == IF Truthy(name_filter)
                   THEN SelectSeq(resorts,
                            LAMBDA r : Contains(lower(name_filter[1]), lower(r.name)))
                   ELSE resorts
        by_country == IF Truthy(country_filter)
                      THEN SelectSeq(by_name,
                               LAMBDA r : upper(r.country) = upper(country_filter[1]))
                      ELSE by_name
        by_region == IF Truthy(region)
                     THEN SelectSeq(by_country,
                              LAMBDA r : upper(r.region) = upper(region[1]))
                     ELSE by_country
    IN IF Truthy(pass_filter)
       THEN SelectSeq(by_region,
                LAMBDA r : Truthy(r.pass_type)
                           /\ upper(r.pass_type[1]) = upper(pass_filter[1]))
       ELSE by_region

filter_resorts(resorts, name_filter, country_filter, region_filter, pass_filter, state_filter) ==
    LET region == IF Truthy(state_filter) /\ ~Truthy(region_filter)
                  THEN state_filter ELSE region_filter
        by_name == IF Truthy(name_filter)
                   THEN SelectSeq(resorts,
                            LAMBDA r : Contains(lower(name_filter[1]), lower(r.name)))
                   ELSE resorts
        by_country == IF Truthy(country_filter)
                      THEN SelectSeq(by_name,
                               LAMBDA r : upper(r.country) = upper(country_filter[1]))
                      ELSE by_name
        by_region == IF Truthy(region)
                     THEN SelectSeq(by_country,
                              LAMBDA r : upper(r.region) = upper(region[1]))
                     ELSE by_country
    IN IF Truthy(pass_filter)
       THEN SelectSeq(by_region,
                LAMBDA r : Truthy(r.pass_type)
                           /\ upper(r.pass_type[1]) = upper(pass_filter[1]))
       ELSE by_region

\* The resorts and filter values the model draws from: two-letter names,
\* country and region codes and pass types in either case.
ResortPool ==
    { SkiResort(Capitalised(<<"a", "b">>), Caps(<<"u", "s">>), Caps(<<"u", "t">>),
                <<Caps(<<"e", "p">>)>>, "America/Denver"),
      SkiResort(Capitalised(<<"b", "a">>), Caps(<<"u", "s">>), Caps(<<"c", "o">>),
                <<Caps(<<"i", "k">>)>>, "America/Denver"),
      SkiResort(Capitalised(<<"a", "a">>), Caps(<<"f", "r">>), Capitalised(<<"u", "t">>),
                <<>>, "Europe/Paris"),
      SkiResort(Small(<<"b", "b">>), Small(<<"u", "s">>), Small(<<"u", "t">>),
                << <<>> >>, "UTC") }

NameFilters ==
    { <<>>, << <<>> >>, <<Small(<<"a">>)>>, <<Caps(<<"a", "b">>)>>, <<Small(<<"a", "c">>)>> }
CountryFilters == { <<>>, <<Small(<<"u", "s">>)>>, <<Caps(<<"f", "r">>)>> }
RegionFilters == { <<>>, << <<>> >>, <<Caps(<<"u", "t">>)>>, <<Small(<<"c", "o">>)>> }
PassFilters == { <<>>, <<Small(<<"e", "p">>)>>, <<Caps(<<"i", "k">>)>> }

InitFilter ==
    /\ resort = NoResort
    /\ pc = "filter"
    /\ providers_with_max_days = <<>>
    /\ next_provider = 1
    /\ all_forecasts = <<>>
    /\ calls = <<>>
    /\ upstream = NoUpstream
    /\ results = <<>>
    /\ output = NoOutput
    /\ cache = StartUp
    /\ trace = <<>>
    /\ main \in [kind : {"input"}, resorts : BoundedSeq(ResortPool, MaxResorts)]

\* filter_resorts called with any combination of filters.
FilterResorts ==
    /\ pc = "filter"
    /\ \E name_filter \in NameFilters, country_filter \in CountryFilters,
          region_filter \in RegionFilters, pass_filter \in PassFilters,
          state_filter \in RegionFilters :
          main' = [kind |-> "filter_resorts",
                   resorts |-> main.resorts,
                   name_filter |-> name_filter,
                   country_filter |-> country_filter,
                   region_filter |-> region_filter,
                   pass_filter |-> pass_filter,
                   state_filter |-> state_filter,
                   result |-> filter_resorts(main.resorts, name_filter, country_filter,
                                             region_filter, pass_filter, state_filter)]
    /\ pc' = "filtered"
    /\ UNCHANGED <<resort, providers_with_max_days, next_provider, all_forecasts,
                   calls, upstream, results, output, cache, trace>>

NextFilter == FilterResorts

SpecFilter == InitFilter /\ [][NextFilter]_vars

----------------------------------------------------------------------------
(* cli.py: fetch_all_forecasts and its callers. *)

EUROPEAN_COUNTRIES ==
    {"AD", "AT", "BG", "CH", "CZ", "DE", "ES", "FI", "FR", "IT",
     "NO", "PL", "RO", "SE", "SI", "SK"}

Countries == {"US", "CA", "FR", "JP", "AU"}

\* The IANA timezones a resort of each country may carry in resorts.json.
Timezones(country) ==
    CASE country = "US" -> {"America/Denver", "America/Los_Angeles"}
      [] country = "CA" -> {"America/Vancouver"}
      [] country = "FR" -> {"Europe/Paris"}
      [] country = "JP" -> {"Asia/Tokyo"}
      [] country = "AU" -> {"Australia/Sydney"}

Resorts ==
    UNION { {[country |-> c, timezone |-> tz] : tz \in Timezones(c)} : c \in Countries }

DaysAsked == {3, 7, 16, 30}

DirectProviders == {"Open-Meteo", "ECMWF", "BOM", "NWS"}

\* providers_with_max_days as fetch_all_forecasts builds it.
ProviderListWithNWSEverywhere(country) ==
    << [provider |-> "Open-Meteo", max_days |-> OPEN_METEO_MAX_DAYS],
       [provider |-> "ECMWF", max_days |-> ECMWF_MAX_DAYS],
       [provider |-> "NWS", max_days |-> NWS_MAX_DAYS] >>

ProviderListNWSFirst(country) ==
    (IF country = "US"
     THEN << [provider |-> "NWS", max_days |-> NWS_MAX_DAYS] >>
     ELSE <<>>)
    \o << [provider |-> "Open-Meteo", max_days |-> OPEN_METEO_MAX_DAYS],
          [provider |-> "ECMWF", max_days |-> ECMWF_MAX_DAYS] >>

ProviderList(country) ==
    << [provider |-> "Open-Meteo", max_days |-> OPEN_METEO_MAX_DAYS],
       [provider |-> "ECMWF", max_days |-> ECMWF_MAX_DAYS] >>
    \o (IF country = "US"
        THEN << [provider |-> "NWS", max_days |-> NWS_MAX_DAYS] >>
        ELSE <<>>)

\* for forecast in forecasts: all_forecasts[forecast.date].append(forecast)
RECURSIVE AppendAllNonZero(_, _)
AppendAllNonZero(d, forecasts) ==
    IF forecasts = <<>> THEN d
    ELSE AppendAllNonZero(
             IF Head(forecasts).snowfall_inches = 0 THEN d
             ELSE DictAppend(d, Head(forecasts).date, Head(forecasts)),
             Tail(forecasts))

RECURSIVE AppendAll(_, _)
AppendAll(d, forecasts) ==
    IF forecasts = <<>> THEN d
    ELSE AppendAll(DictAppend(d, Head(forecasts).date, Head(forecasts)), Tail(forecasts))

Init ==
    /\ resort \in Resorts
    /\ pc = "start"
    /\ providers_with_max_days = <<>>
    /\ next_provider = 1
    /\ all_forecasts = <<>>
    /\ calls = <<>>
    /\ upstream = NoUpstream
    /\ results = <<>>
    /\ output = NoOutput
    /\ cache = StartUp
    /\ trace = <<>>
    /\ main = NoMain

\* fetch_all_forecasts is entered: the provider list and the empty dict.
BuildProviderList ==
    /\ pc = "start"
    /\ providers_with_max_days' = ProviderList(resort.country)
    /\ pc' = "loop"
    /\ UNCHANGED <<cache, trace, main>>
    /\ UNCHANGED <<output, resort, next_provider, all_forecasts, calls, upstream, results>>

\* One iteration of the loop: the provider is called with its max_days and
\* its observations are filed by date.  An exception of the call leaves
\* fetch_all_forecasts, which has no handler.
InvokeProvider ==
    /\ pc = "loop"
    /\ next_provider <= Len(providers_with_max_days)
    /\ LET entry == providers_with_max_days[next_provider] IN
       \E resp \in Responses(entry.provider, MaxEntries) :
          LET out == get_snowfall_forecast(entry.provider, entry.max_days, resp) IN
          /\ calls' = Append(calls,
                 CallRecord(entry.provider, "forecast", entry.max_days, resp, out))
          /\ IF out.status = "raised"
             THEN /\ pc' = "raised"
                  /\ UNCHANGED <<all_forecasts, next_provider>>
             ELSE /\ all_forecasts' = AppendAll(all_forecasts, out.forecasts)
                  /\ next_provider' = next_provider + 1
                  /\ pc' = "loop"
    /\ UNCHANGED <<cache, trace, main>>
    /\ UNCHANGED <<output, resort, providers_with_max_days, upstream, results>>

\* The loop is exhausted: return all_forecasts.
Return ==
    /\ pc = "loop"
    /\ next_provider > Len(providers_with_max_days)
    /\ pc' = "returned"
    /\ UNCHANGED <<cache, trace, main>>
    /\ UNCHANGED <<output, resort, providers_with_max_days, next_provider,
                   all_forecasts, calls, upstream, results>>

\* A normalizer called on its own, as the provider tests do, with any day
\* count and any upstream response.
DirectForecastCall ==
    /\ pc = "start"
    /\ \E name \in DirectProviders, days \in DaysAsked :
       \E resp \in DirectResponses(name) :
          /\ calls' = <<CallRecord(name, "forecast", days, resp,
                                   get_snowfall_forecast(name, days, resp))>>
          /\ upstream' = resp
    /\ pc' = "called"
    /\ UNCHANGED <<cache, trace, main>>
    /\ UNCHANGED <<output, resort, providers_with_max_days, next_provider,
                   all_forecasts, results>>

\* get_historical_snowfall called on its own, with the 14 days of
\* fetch_historical_snowfall or any other day count.
DirectHistoricalCall ==
    /\ pc = "start"
    /\ \E days \in {HISTORICAL_DAYS} \cup DaysAsked :
       \E resp \in DirectResponses("Open-Meteo") :
          /\ calls' = <<CallRecord("Open-Meteo", "historical", days, resp,
                                   get_historical_snowfall(days, resp))>>
          /\ upstream' = resp
    /\ pc' = "called"
    /\ UNCHANGED <<cache, trace, main>>
    /\ UNCHANGED <<output, resort, providers_with_max_days, next_provider,
                   all_forecasts, results>>

\* dict[key] = value: a new key goes last, a known key keeps its place.
DictPut(d, key, value) ==
    IF DictHas(d, key)
    THEN [i \in DOMAIN d |-> IF d[i].k = key THEN [k |-> key, v |-> value] ELSE d[i]]
    ELSE Append(d, [k |-> key, v |-> value])

\* {f.source: f.snowfall_inches for f in result.forecasts}: of two
\* observations of one source the later one stays.
RECURSIVE source_values(_)
source_values(forecasts) ==
    IF forecasts = <<>> THEN <<>>
    ELSE LET f == forecasts[Len(forecasts)]
         IN DictPut(source_values(SubSeq(forecasts, 1, Len(forecasts) - 1)),
                    f.source, f.snowfall_inches)

\* dict.get(key, default)
GetOr(d, key, default) == IF DictHas(d, key) THEN DictGet(d, key) ELSE default

\* A cell of the printed table: the source's amount, or "-" (no value).
Cell(values, name) == IF DictHas(values, name) THEN <<DictGet(values, name)>> ELSE <<>>

\* The table row display_forecasts prints for an aggregate (the rounded
\* mean of the Avg column is left out).
TableRow(result) ==
    LET values == source_values(result.forecasts)
    IN [date |-> result.date,
        gfs |-> Cell(values, "Open-Meteo"),
        nws |-> Cell(values, "NWS"),
        ecmwf |-> Cell(values, "ECMWF")]

NoForecastData == [kind |-> "message", text |-> "No forecast data available."]

\* display_forecasts after fetch_all_forecasts has returned: the message
\* for an empty grouping, otherwise the aggregates and their table.
DisplayForecasts ==
    /\ pc = "returned"
    /\ IF all_forecasts = <<>>
       THEN /\ output' = NoForecastData
            /\ UNCHANGED results
       ELSE /\ results' = calculate_avg_forecasts(all_forecasts)
            /\ output' = [kind |-> "table",
                          rows |-> [j \in DOMAIN results' |-> TableRow(results'[j])]]
    /\ pc' = "displayed"
    /\ UNCHANGED <<cache, trace, main>>
    /\ UNCHANGED <<resort, providers_with_max_days, next_provider,
                   all_forecasts, calls, upstream>>

\* The "sources" entry of a day of daily_forecasts, with its defaults.
SourceBreakdown(result) ==
    LET values == source_values(result.forecasts)
    IN << [k |-> "Open-Meteo", v |-> GetOr(values, "Open-Meteo", 0)],
          [k |-> "NWS", v |-> GetOr(values, "NWS", 0)],
          [k |-> "ECMWF", v |-> GetOr(values, "ECMWF", 0)] >>

\* The archive responses build_resort_forecast_data may meet: a failed
\* fetch, a day of snow before today, a body with a string value.
ArchiveResponses ==
    {FailedResponse("network_error")}
    \cup {DailyBody(Today - 1, 1, 254, defect) : defect \in {"none", "str_snow"}}

\* build_resort_forecast_data after fetch_all_forecasts has returned: the
\* aggregates, the per-day breakdown, then the archive call and its list
\* (avg_inches and the totals, which are rounded sums, are left out).
BuildResortForecastData ==
    /\ pc = "returned"
    /\ results' = calculate_avg_forecasts(all_forecasts)
    /\ \E resp \in ArchiveResponses :
          LET historical == get_historical_snowfall(HISTORICAL_DAYS, resp) IN
          /\ calls' = Append(calls,
                 CallRecord("Open-Meteo", "historical", HISTORICAL_DAYS, resp, historical))
          /\ IF historical.status = "raised"
             THEN /\ pc' = "build_raised"
                  /\ UNCHANGED output
             ELSE /\ pc' = "built"
                  /\ output' =
                        [kind |-> "data",
                         daily_forecasts |->
                            [j \in DOMAIN results' |->
                               [date |-> results'[j].date,
                                sources |-> SourceBreakdown(results'[j])]],
                         historical_snowfall |->
                            [i \in DOMAIN historical.forecasts |->
                               [date |-> historical.forecasts[i].date,
                                snowfall_inches |-> historical.forecasts[i].snowfall_inches]]]
    /\ UNCHANGED <<cache, trace, main>>
    /\ UNCHANGED <<resort, providers_with_max_days, next_provider,
                   all_forecasts, upstream>>

Next ==
    \/ BuildProviderList
    \/ InvokeProvider
    \/ Return
    \/ CalculateAvg
    \/ DisplayForecasts
    \/ BuildResortForecastData
    \/ DirectForecastCall
    \/ DirectHistoricalCall

Spec == Init /\ [][Next]_vars

----------------------------------------------------------------------------
(* cli.py: main.  The run is followed from the parsed arguments to its     *)
(* exit; `trace` logs the calls of set_cache_enabled, load_resorts and     *)
(* get_session and every HTTP request with the session it went through,    *)
(* and main.ran lists what main ran for which resort.  The contents of the *)
(* table and of the exported data are those of DisplayForecasts and        *)
(* BuildResortForecastData above.                                          *)

\* resort.country as the provider list compares it: `== "US"` is exact.
CountryCode(text) ==
    IF text = Caps(<<"u", "s">>) THEN "US"
    ELSE IF text = Caps(<<"f", "r">>) THEN "FR"
    ELSE "other"

\* The responses a provider may meet during a run of main: a failed
\* request, a day of snow, and a body the normalizer raises on.
MainResponses(name) ==
    IF name = "NWS"
    THEN { [grid |-> [kind |-> "network_error"], kind |-> "ok", entries |-> <<>>],
           [grid |-> [kind |-> "ok"], kind |-> "ok",
            entries |-> NWSEntries(Today, 1, 1270, "none")],
           [grid |-> [kind |-> "ok"], kind |-> "ok",
            entries |-> NWSEntries(Today, 1, 1270, "null_time")] }
    ELSE ArchiveResponses \cup {DailyBody(Today, 1, 254, "none")}

\* The configuration file load_resorts opens: missing, not loadable, or a
\* list of resorts.
ConfigFiles ==
    { [kind |-> "missing", resorts |-> <<>>], [kind |-> "invalid", resorts |-> <<>>] }
    \cup { [kind |-> "ok", resorts |-> rs] : rs \in BoundedSeq(ResortPool, MaxResorts) }

\* The parsed command line.
Arguments ==
    [ no_cache : BOOLEAN, list : BOOLEAN, export_json : BOOLEAN,
      resort : { <<>>, <<Small(<<"a">>)>>, <<Small(<<"a", "c">>)>> },
      state : { <<>>, <<Caps(<<"u", "t">>)>> },
      pass_type : { <<>>, <<Small(<<"e", "p">>)>> } ]

Ran(fn, index) == [fn |-> fn, resort |-> index]

\* The state of a fetch in progress: the cache module, the log, the
\* forecasts collected and whether a call has raised.
Fetching(c, log) == [cache |-> c, log |-> log, forecasts |-> <<>>, status |-> "returned"]

Request(name, method, session) == Event("request", <<name, method>>, session)

\* One normalizer call: NWS goes through requests.get, the others obtain
\* the session from get_session and send their one request through it.
ProviderCall(st, name, method, days, resp) ==
    LET r == get_session(st.cache, Len(Constructed(st.log)) + 1)
        out == IF method = "historical" THEN get_historical_snowfall(days, resp)
               ELSE get_snowfall_forecast(name, days, resp)
    IN [cache |-> IF name = "NWS" THEN st.cache ELSE r.cache,
        log |-> IF name = "NWS"
                THEN st.log \o [i \in 1..RequestsMade(name, resp) |->
                                   Request(name, method, <<>>)]
                ELSE Append(LogGetSession(st.log, r), Request(name, method, <<r.session>>)),
        forecasts |-> IF method = "historical" THEN st.forecasts
                      ELSE AppendAll(st.forecasts, out.forecasts),
        status |-> out.status]

FetchNothing(st, entries, resps) == st

\* fetch_all_forecasts(resort): the providers of the list in order, each
\* with its response, until the list ends or a call raises.
RECURSIVE FetchAll(_, _, _)
FetchAll(st, entries, resps) ==
    IF entries = <<>> \/ st.status = "raised" THEN st
    ELSE FetchAll(ProviderCall(st, Head(entries).provider, "forecast",
                               Head(entries).max_days, Head(resps)),
                  Tail(entries), Tail(resps))

\* One response for each provider of the list.
ResponsesFor(entries) ==
    { rs \in [DOMAIN entries ->
                 UNION {MainResponses(entries[i].provider) : i \in DOMAIN entries}] :
         \A i \in DOMAIN entries : rs[i] \in MainResponses(entries[i].provider) }

InitMain ==
    /\ resort = NoResort
    /\ pc = "main_parsed"
    /\ providers_with_max_days = <<>>
    /\ next_provider = 1
    /\ all_forecasts = <<>>
    /\ calls = <<>>
    /\ upstream = NoUpstream
    /\ results = <<>>
    /\ output = NoOutput
    /\ cache = StartUp
    /\ trace = <<>>
    /\ \E args \in Arguments, file \in ConfigFiles :
          main = [kind |-> "main", args |-> args, file |-> file, resorts |-> <<>>,
                  filtered_resorts |-> <<>>, next |-> 1, ran |-> <<>>, exit |-> <<>>]

\* if args.no_cache: set_cache_enabled(False)
MainConfigureCache ==
    /\ pc = "main_parsed"
    /\ IF main.args.no_cache
       THEN /\ cache' = set_cache_enabled(cache, FALSE)
            /\ trace' = Append(trace, Event("set_cache_enabled", <<FALSE>>, <<>>))
       ELSE UNCHANGED <<cache, trace>>
    /\ pc' = "main_configured"
    /\ UNCHANGED <<resort, providers_with_max_days, next_provider, all_forecasts,
                   calls, upstream, results, output, main>>

\* resorts = load_resorts(), or the error message and sys.exit(1).
MainLoadResorts ==
    /\ pc = "main_configured"
    /\ trace' = Append(trace, Event("load_resorts", <<>>, <<>>))
    /\ IF main.file.kind = "ok"
       THEN /\ main' = [main EXCEPT !.resorts = main.file.resorts]
            /\ pc' = "main_loaded"
       ELSE /\ main' = [main EXCEPT !.ran = Append(@, Ran("load_error", 0)),
                                    !.exit = <<1>>]
            /\ pc' = "main_exit"
    /\ UNCHANGED <<resort, providers_with_max_days, next_provider, all_forecasts,
                   calls, upstream, results, output, cache>>

\* filtered_resorts = filter_resorts(...); with none left, the message
\* and sys.exit(0).
MainFilterResorts ==
    /\ pc = "main_loaded"
    /\ LET filtered == filter_resorts(main.resorts, main.args.resort, <<>>, <<>>,
                                      main.args.pass_type, main.args.state)
       IN IF filtered = <<>>
          THEN /\ main' = [main EXCEPT !.ran = Append(@, Ran("no_match", 0)),
                                       !.exit = <<0>>]
               /\ pc' = "main_exit"
          ELSE /\ main' = [main EXCEPT !.filtered_resorts = filtered]
               /\ pc' = "main_filtered"
    /\ UNCHANGED <<resort, providers_with_max_days, next_provider, all_forecasts,
                   calls, upstream, results, output, cache, trace>>

\* if args.list: list_resorts(filtered_resorts); return
MainListResorts ==
    /\ pc = "main_filtered"
    /\ main.args.list
    /\ main' = [main EXCEPT !.ran = Append(@, Ran("list_resorts", 0))]
    /\ pc' = "main_returned"
    /\ UNCHANGED <<resort, providers_with_max_days, next_provider, all_forecasts,
                   calls, upstream, results, output, cache, trace>>

\* One iteration of export_json's loop: build_resort_forecast_data fetches
\* the forecasts and then the history of the resort.  An exception of a
\* normalizer leaves main.
MainExportResort ==
    /\ pc = "main_filtered"
    /\ ~main.args.list /\ main.args.export_json
    /\ main.next <= Len(main.filtered_resorts)
    /\ LET entries == ProviderList(CountryCode(main.filtered_resorts[main.next].country)) IN
       \E resps \in ResponsesFor(entries), archive \in ArchiveResponses :
          LET fetched == FetchAll(Fetching(cache, trace), entries, resps)
              st == IF fetched.status = "raised" THEN fetched
                    ELSE ProviderCall(fetched, "Open-Meteo", "historical",
                                      HISTORICAL_DAYS, archive)
          IN /\ cache' = st.cache
             /\ trace' = st.log
             /\ IF st.status = "raised"
                THEN /\ main' = [main EXCEPT !.exit = <<1>>]
                     /\ pc' = "main_raised"
                ELSE /\ main' = [main EXCEPT
                                    !.ran = Append(@, Ran("build_resort_forecast_data",
                                                          main.next)),
                                    !.next = @ + 1]
                     /\ pc' = "main_filtered"
    /\ UNCHANGED <<resort, providers_with_max_days, next_provider, all_forecasts,
                   calls, upstream, results, output>>

\* export_json after its loop: the file is written, main returns.
MainExportWrite ==
    /\ pc = "main_filtered"
    /\ ~main.args.list /\ main.args.export_json
    /\ main.next > Len(main.filtered_resorts)
    /\ main' = [main EXCEPT !.ran = Append(@, Ran("json.dump", 0))]
    /\ pc' = "main_returned"
    /\ UNCHANGED <<resort, providers_with_max_days, next_provider, all_forecasts,
                   calls, upstream, results, output, cache, trace>>

\* One iteration of main's last loop: display_forecasts(resort).
MainDisplayResort ==
    /\ pc = "main_filtered"
    /\ ~main.args.list /\ ~main.args.export_json
    /\ main.next <= Len(main.filtered_resorts)
    /\ LET entries == ProviderList(CountryCode(main.filtered_resorts[main.next].country)) IN
       \E resps \in ResponsesFor(entries) :
          LET st == FetchAll(Fetching(cache, trace), entries, resps)
          IN /\ cache' = st.cache
             /\ trace' = st.log
             /\ IF st.status = "raised"
                THEN /\ main' = [main EXCEPT !.exit = <<1>>]
                     /\ pc' = "main_raised"
                ELSE /\ main' = [main EXCEPT
                                    !.ran = Append(@, Ran("display_forecasts", main.next)),
                                    !.next = @ + 1]
                     /\ pc' = "main_filtered"
    /\ UNCHANGED <<resort, providers_with_max_days, next_provider, all_forecasts,
                   calls, upstream, results, output>>

\* The last loop is exhausted: main returns.
MainReturn ==
    /\ pc = "main_filtered"
    /\ ~main.args.list /\ ~main.args.export_json
    /\ main.next > Len(main.filtered_resorts)
    /\ pc' = "main_returned"
    /\ UNCHANGED <<resort, providers_with_max_days, next_provider, all_forecasts,
                   calls, upstream, results, output, cache, trace, main>>

NextMain ==
    \/ MainConfigureCache
    \/ MainLoadResorts
    \/ MainFilterResorts
    \/ MainListResorts
    \/ MainExportResort
    \/ MainExportWrite
    \/ MainDisplayResort
    \/ MainReturn

SpecMain == InitMain /\ [][NextMain]_vars

----------------------------------------------------------------------------
(* Claims about the aggregator, checked under SpecAgg. *)

AmountsOf(forecasts) == [i \in DOMAIN forecasts |-> forecasts[i].snowfall_inches]

ResultsFor(d) == SelectSeq(results, LAMBDA r : r.date = d)

\* C1: for every date of the input whose list is not empty, the aggregate's
\* avg_snowfall_inches is the sum of the list's amounts divided by their
\* count, every observation counting once.
C1_MeanIsArithmeticMean ==
    pc = "done" =>
        \A i \in DOMAIN all_forecasts :
            LET obs == all_forecasts[i].v IN
            obs # <<>> =>
                \E j \in DOMAIN results :
                    /\ results[j].date = all_forecasts[i].k
                    /\ results[j].avg_snowfall_inches.den > 0
                    /\ results[j].avg_snowfall_inches.num * Len(obs)
                         = SeqSum(AmountsOf(obs)) * results[j].avg_snowfall_inches.den

\* C1 witness: an aggregate over three observations, two of them equal and
\* from the same source, has been computed.
C1_Witness ==
    /\ pc = "done"
    /\ \E j \in DOMAIN results :
          /\ Len(results[j].forecasts) = 3
          /\ Cardinality(Range(AmountsOf(results[j].forecasts))) = 2
          /\ Cardinality({results[j].forecasts[i].source :
                             i \in DOMAIN results[j].forecasts}) = 1

\* C2: the returned sequence is strictly ascending by date, so no date
\* appears twice, whatever the insertion order of the input's keys.
C2_SortedStrictlyAscending ==
    pc = "done" =>
        \A i, j \in DOMAIN results : i < j => results[i].date < results[j].date

\* C2 witness: the input's keys were inserted in descending order and two
\* aggregates came out.
C2_Witness ==
    /\ pc = "done"
    /\ Len(results) >= 2
    /\ \E i, j \in DOMAIN all_forecasts :
          i < j /\ all_forecasts[i].k > all_forecasts[j].k
          /\ all_forecasts[i].v # <<>> /\ all_forecasts[j].v # <<>>

\* C3: exactly one aggregate for each input date that has an observation,
\* none for a date whose list is empty, none for a date that is not a key,
\* and no aggregate with an empty forecasts list.
C3_OneAggregatePerNonEmptyDate ==
    pc = "done" =>
        /\ \A i \in DOMAIN all_forecasts :
              Len(ResultsFor(all_forecasts[i].k))
                 = IF all_forecasts[i].v = <<>> THEN 0 ELSE 1
        /\ \A j \in DOMAIN results :
              /\ DictHas(all_forecasts, results[j].date)
              /\ results[j].forecasts # <<>>

\* C3 witness: the input held a date with an empty list beside a date with
\* observations.
C3_Witness ==
    /\ pc = "done"
    /\ \E i, j \in DOMAIN all_forecasts :
          all_forecasts[i].v = <<>> /\ all_forecasts[j].v # <<>>
    /\ Len(results) = 1

----------------------------------------------------------------------------
(* Claims about the providers and fetch_all_forecasts, checked under Spec. *)

InRun == pc \in {"loop", "raised", "returned", "done"}

Completed == pc \in {"returned", "done"}

Listed == {providers_with_max_days[i].provider : i \in DOMAIN providers_with_max_days}

Invoked == {calls[i].provider : i \in DOMAIN calls}

\* Every observation the invoked providers returned, in arrival order.
Collected == Concat([i \in DOMAIN calls |-> calls[i].forecasts])

OnDate(obs, d) == SelectSeq(obs, LAMBDA f : f.date = d)

\* C4: the aggregate for date d holds exactly the observations collected
\* for d, in arrival order, two of the same source included, and its mean
\* counts each of them.
C4_AggregateRetainsAllObservations ==
    pc = "done" =>
        /\ \A i \in DOMAIN Collected :
              \E j \in DOMAIN results : results[j].date = Collected[i].date
        /\ \A j \in DOMAIN results :
              /\ results[j].forecasts = OnDate(Collected, results[j].date)
              /\ results[j].avg_snowfall_inches.num * Len(OnDate(Collected, results[j].date))
                    = SeqSum(AmountsOf(OnDate(Collected, results[j].date)))
                        * results[j].avg_snowfall_inches.den

\* C4 witness: an aggregate holds two observations of one source beside an
\* observation of another source.
C4_Witness ==
    /\ pc = "done"
    /\ \E j \in DOMAIN results :
          \E a, b, c \in DOMAIN results[j].forecasts :
              /\ a < b
              /\ results[j].forecasts[a].source = results[j].forecasts[b].source
              /\ results[j].forecasts[c].source # results[j].forecasts[a].source

\* C5: no normalizer call raises, whatever the upstream response, and a
\* call whose fetch failed returns the empty list.
C5_NormalizerNeverRaises ==
    \A i \in DOMAIN calls :
        /\ calls[i].status # "raised"
        /\ calls[i].status = "failed" => calls[i].forecasts = <<>>

\* C6: a failing provider does not end the run: fetch_all_forecasts never
\* leaves by an exception, and when it returns every listed provider has
\* been invoked and the grouping holds exactly the observations of the
\* providers that succeeded.
C6_FailureDoesNotStopTheOthers ==
    /\ pc # "raised"
    /\ Completed =>
          /\ Len(calls) = Len(providers_with_max_days)
          /\ \A i \in DOMAIN calls :
                calls[i].provider = providers_with_max_days[i].provider
          /\ all_forecasts = AppendAll(<<>>, Collected)

MaxHorizon(name) ==
    CASE name = "Open-Meteo" -> OPEN_METEO_MAX_DAYS
      [] name = "ECMWF" -> ECMWF_MAX_DAYS
      [] name = "BOM" -> BOM_FORECAST_DAYS_CAP
      [] OTHER -> NWS_MAX_DAYS

\* C7: ECMWF asked for 16 days returns at most 10 observations whatever
\* the number of daily entries of the response, and no provider invoked by
\* fetch_all_forecasts returns more observations than its maximum horizon.
C7_AtMostHorizonObservations ==
    \A i \in DOMAIN calls :
        /\ (calls[i].provider = "ECMWF" /\ calls[i].method = "forecast"
              /\ calls[i].days = 16 /\ calls[i].status = "ok")
             => Len(calls[i].forecasts) <= ECMWF_MAX_DAYS
        /\ (InRun /\ calls[i].status = "ok")
             => Len(calls[i].forecasts) <= MaxHorizon(calls[i].provider)

C9_ProviderSelection ==
    InRun =>
        /\ {"Open-Meteo", "ECMWF"} \subseteq Listed
        /\ ("NWS" \in Listed) <=> (resort.country = "US")
        /\ Invoked \subseteq Listed
        /\ Completed => Invoked = Listed

\* C9 witness: a run for a US resort has returned after invoking NWS.
C9_Witness ==
    /\ pc = "returned"
    /\ resort.country = "US"
    /\ Invoked = {"Open-Meteo", "ECMWF", "NWS"}

\* C10: a run that returns has invoked ICON for a European resort, JMA for
\* a Japanese one and BOM for an Australian one, and none of them for a
\* resort outside the jurisdiction.
C10_RegionalProvidersInvoked ==
    Completed =>
        /\ ("ICON" \in Invoked) <=> (resort.country \in EUROPEAN_COUNTRIES)
        /\ ("JMA" \in Invoked) <=> (resort.country = "JP")
        /\ ("BOM" \in Invoked) <=> (resort.country = "AU")

----------------------------------------------------------------------------
(* Claims about the normalizers called on their own, checked under Spec. *)

\* The call of a state reached by DirectForecastCall or DirectHistoricalCall.
DirectCall == calls[1]

CmBased == {"Open-Meteo", "ECMWF", "BOM"}

\* `tenths` is v * 0.393701 inches (v in hundredths of a centimetre) to the
\* nearest tenth of an inch.
NearestTenthOfCm(tenths, v) == 2 * Abs(tenths * 10000000 - v * 393701) <= 10000000

\* C11: a centimetre-based normalizer (Open-Meteo, ECMWF, BOM, the archive
\* variant) that returns reports, for the i-th upstream value v cm, v times
\* 0.393701 rounded to one decimal; 2.54 cm gives 1.0 and 25.4 cm gives 10.0.
C11_CentimetresToInches ==
    (pc = "called" /\ DirectCall.provider \in CmBased /\ DirectCall.status = "ok") =>
        \A i \in DOMAIN DirectCall.forecasts :
            LET v == upstream.snowfall_sum[i]
                inches == DirectCall.forecasts[i].snowfall_inches
            IN v.t = "num" =>
                  /\ NearestTenthOfCm(inches, v.v)
                  /\ v.v = 254 => inches = 10
                  /\ v.v = 2540 => inches = 100

\* C11 witness: the archive variant has reported 10.0 inches for 25.4 cm.
C11_Witness ==
    /\ pc = "called"
    /\ DirectCall.method = "historical"
    /\ DirectCall.status = "ok"
    /\ \E i \in DOMAIN DirectCall.forecasts :
          /\ upstream.snowfall_sum[i] = Num(2540)
          /\ DirectCall.forecasts[i].snowfall_inches = 100

\* The entries of a response whose interval starts on day d.
StartingOn(entries, d) ==
    SelectSeq(entries, LAMBDA e : e.validTime.fmt = "iso" /\ e.validTime.day = d)

\* The millimetres (in hundredths) listed for day d, a null counting as 0.
MillimetresOn(entries, d) ==
    LET on == StartingOn(entries, d)
    IN SeqSum([i \in DOMAIN on |-> IF on[i].value.t = "num" THEN on[i].value.v ELSE 0])

NearestTenthOfMm(tenths, v) == 2 * Abs(tenths * 100000000 - v * 393701) <= 100000000

\* C12: the amount NWS reports for a date is the sum of the values of all
\* entries starting on that date (null as 0) times 0.0393701, rounded to one
\* decimal; 10 + 15 + 5 + 10 mm gives 1.6 and a single 25.4 mm gives 1.0.
C12_MillimetresSummedPerDate ==
    (pc = "called" /\ DirectCall.provider = "NWS" /\ DirectCall.status = "ok") =>
        \A i \in DOMAIN DirectCall.forecasts :
            LET f == DirectCall.forecasts[i]
                on == StartingOn(upstream.entries, f.date)
                mm == MillimetresOn(upstream.entries, f.date)
            IN /\ NearestTenthOfMm(f.snowfall_inches, mm)
               /\ [k \in DOMAIN on |-> on[k].value]
                     = <<Num(1000), Num(1500), Num(500), Num(1000)>>
                   => f.snowfall_inches = 16
               /\ [k \in DOMAIN on |-> on[k].value] = <<Num(2540)>>
                   => f.snowfall_inches = 10

\* C12 witness: NWS has reported 1.6 inches for a day of four entries of
\* 10, 15, 5 and 10 mm.
C12_Witness ==
    /\ pc = "called"
    /\ DirectCall.provider = "NWS"
    /\ \E i \in DOMAIN DirectCall.forecasts :
          /\ Len(StartingOn(upstream.entries, DirectCall.forecasts[i].date)) = 4
          /\ MillimetresOn(upstream.entries, DirectCall.forecasts[i].date) = 4000
          /\ DirectCall.forecasts[i].snowfall_inches = 16

\* The dates of a response that are not before the current date.
NonPastDates(entries) ==
    {d \in {entries[i].validTime.day :
               i \in {j \in DOMAIN entries : entries[j].validTime.fmt = "iso"}} :
        d >= Today}

ReturnedDates(call) == {call.forecasts[i].date : i \in DOMAIN call.forecasts}

\* C13: the observations NWS returns hold no date before the current date,
\* are strictly ascending by date, number at most the requested day count
\* n, and are the n earliest non-past dates of the response when it has
\* more than n of them.
C13_NonPastSortedTruncated ==
    (pc = "called" /\ DirectCall.provider = "NWS" /\ DirectCall.status = "ok") =>
        LET out == DirectCall.forecasts
            n == DirectCall.days
            nonpast == NonPastDates(upstream.entries)
        IN /\ \A i \in DOMAIN out : out[i].date >= Today
           /\ \A i, j \in DOMAIN out : i < j => out[i].date < out[j].date
           /\ Len(out) <= n
           /\ ReturnedDates(DirectCall) \subseteq nonpast
           /\ Cardinality(nonpast) > n =>
                 /\ Len(out) = n
                 /\ \A d \in nonpast \ ReturnedDates(DirectCall) :
                       \A r \in ReturnedDates(DirectCall) : r < d

\* C13 witness: a response listed latest first, holding a past date, today
\* and more than three later dates, has been cut to the three earliest
\* non-past dates.
C13_Witness ==
    /\ pc = "called"
    /\ DirectCall.provider = "NWS"
    /\ DirectCall.days = 3
    /\ Len(upstream.entries) > 1
    /\ upstream.entries[1].validTime.day > upstream.entries[Len(upstream.entries)].validTime.day
    /\ \E i \in DOMAIN upstream.entries : upstream.entries[i].validTime = ValidTime(Today - 1)
    /\ Cardinality(NonPastDates(upstream.entries)) > 3
    /\ [i \in DOMAIN DirectCall.forecasts |-> DirectCall.forecasts[i].date]
          = <<Today, Today + 1, Today + 2>>

Malformed(e) == e.validTime.fmt \in {"garbage", "missing", "null"}

\* C14: in an otherwise valid NWS response an entry whose timestamp is
\* unparsable, missing or null is skipped on its own: the call does not
\* raise, and the well-formed entries still give every non-past date its
\* total.
C14_MalformedEntrySkippedAlone ==
    (/\ pc = "called"
     /\ DirectCall.provider = "NWS"
     /\ upstream.grid.kind \notin FailureKinds
     /\ upstream.kind = "ok"
     /\ \E i \in DOMAIN upstream.entries : Malformed(upstream.entries[i])
     /\ \A i \in DOMAIN upstream.entries : upstream.entries[i].value.t # "str")
    =>
        /\ DirectCall.status = "ok"
        /\ Cardinality(NonPastDates(upstream.entries)) <= DirectCall.days
              => ReturnedDates(DirectCall) = NonPastDates(upstream.entries)
        /\ \A i \in DOMAIN DirectCall.forecasts :
              NearestTenthOfMm(DirectCall.forecasts[i].snowfall_inches,
                               MillimetresOn(upstream.entries, DirectCall.forecasts[i].date))

\* C15: for a daily response with well-formed dates, the normalizer
\* returns one observation per date listed, and a date whose snowfall
\* value is null or absent (the snowfall array being shorter than the date
\* array) gets the amount 0.0.
C15_NullOrAbsentIsZero ==
    (/\ pc = "called"
     /\ DirectCall.provider \in CmBased
     /\ upstream.kind = "ok"
     /\ \A i \in DOMAIN upstream.time : upstream.time[i].fmt = "iso"
     /\ \A i \in DOMAIN upstream.snowfall_sum : upstream.snowfall_sum[i].t # "str")
    =>
        /\ DirectCall.status = "ok"
        /\ Len(DirectCall.forecasts) = Len(upstream.time)
        /\ \A i \in DOMAIN upstream.time :
              (i > Len(upstream.snowfall_sum) \/ upstream.snowfall_sum[i].t = "null") =>
                  /\ DirectCall.forecasts[i].date = upstream.time[i].day
                  /\ DirectCall.forecasts[i].snowfall_inches = 0

\* C16: every observation a normalizer returns, forecast or historical,
\* has a snowfall amount >= 0 whatever the upstream values, and so has
\* every aggregate mean.
C16_AmountsNonNegative ==
    /\ \A i \in DOMAIN calls :
          \A k \in DOMAIN calls[i].forecasts : calls[i].forecasts[k].snowfall_inches >= 0
    /\ \A j \in DOMAIN results : results[j].avg_snowfall_inches.num >= 0

----------------------------------------------------------------------------
(* Claims about the callers of fetch_all_forecasts, checked under Spec. *)

ForecastCalls == SelectSeq(calls, LAMBDA c : c.method = "forecast")

\* No provider invoked so far yielded an observation: its fetch failed, its
\* body was malformed, or it listed nothing.
NoObservation == \A i \in DOMAIN ForecastCalls : ForecastCalls[i].forecasts = <<>>

AfterFetch == pc \in {"returned", "done", "displayed", "built", "build_raised"}

\* C17: when no applicable provider yields an observation, fetch_all_forecasts
\* does not raise and returns an empty grouping, calculate_avg_forecasts
\* returns an empty sequence, and display_forecasts reports "No forecast
\* data available."
C17_NoDataIsNormalOutcome ==
    (pc \notin {"start", "called"} /\ NoObservation) =>
        /\ pc # "raised"
        /\ AfterFetch => all_forecasts = <<>>
        /\ pc \in {"done", "built", "build_raised"} => results = <<>>
        /\ pc = "displayed" => output = NoForecastData

HistoricalCalls == SelectSeq(calls, LAMBDA c : c.method = "historical")

\* The observations the forecast providers returned, in arrival order.
ForecastObservations == Concat([i \in DOMAIN ForecastCalls |-> ForecastCalls[i].forecasts])

SameObservations(a, b) ==
    /\ Len(a) = Len(b)
    /\ \A x \in Range(a) \cup Range(b) :
          Len(SelectSeq(a, LAMBDA f : f = x)) = Len(SelectSeq(b, LAMBDA f : f = x))

\* What the aggregation gives when the providers of the run are invoked in
\* the order p, each returning what it returned.
ResultsInOrder(p) ==
    calculate_avg_forecasts(
        AppendAll(<<>>, Concat([i \in DOMAIN calls |-> calls[p[i]].forecasts])))

\* C19: invoking the providers in any other order gives the same ordered
\* sequence of dates, the same mean for each date and the same
\* contributing observations for each date.
C19_ProviderOrderIrrelevant ==
    pc = "done" =>
        \A p \in Permutations(DOMAIN calls) :
            LET other == ResultsInOrder(p) IN
            /\ Len(other) = Len(results)
            /\ \A j \in DOMAIN results :
                  /\ other[j].date = results[j].date
                  /\ other[j].avg_snowfall_inches = results[j].avg_snowfall_inches
                  /\ SameObservations(other[j].forecasts, results[j].forecasts)

\* C19 witness: two providers disagreed on a date, and the first key of the
\* grouping is not its earliest date, so another invocation order fills
\* the grouping differently.
C19_Witness ==
    /\ pc = "done"
    /\ Len(all_forecasts) >= 2
    /\ all_forecasts[1].k > all_forecasts[2].k
    /\ \E j \in DOMAIN results :
          \E a, b \in DOMAIN results[j].forecasts :
              /\ results[j].forecasts[a].source # results[j].forecasts[b].source
              /\ results[j].forecasts[a].snowfall_inches
                    # results[j].forecasts[b].snowfall_inches
    /\ \E p \in Permutations(DOMAIN calls) :
          \E j \in DOMAIN results :
              ResultsInOrder(p)[j].forecasts # results[j].forecasts

\* Provider `name` yielded an observation for date d in this run.
Reported(name, d) ==
    \E i \in DOMAIN ForecastObservations :
        ForecastObservations[i].date = d /\ ForecastObservations[i].source = name

\* C20: in the output for a resort a provider appears among a date's
\* per-source values only if it yielded an observation for that date, and
\* a date appears only if some provider reported it, both in the
\* aggregates and in the breakdown build_resort_forecast_data derives.
C20_AbsenceIsNotAPlaceholder ==
    /\ pc \in {"done", "displayed", "built"} =>
          \A j \in DOMAIN results :
              /\ results[j].forecasts # <<>>
              /\ \A k \in DOMAIN results[j].forecasts :
                    /\ results[j].forecasts[k].date = results[j].date
                    /\ Reported(results[j].forecasts[k].source, results[j].date)
    /\ pc = "built" =>
          \A j \in DOMAIN output.daily_forecasts :
              LET day == output.daily_forecasts[j] IN
              /\ \E name \in {"Open-Meteo", "NWS", "ECMWF"} : Reported(name, day.date)
              /\ \A s \in DOMAIN day.sources : Reported(day.sources[s].k, day.date)

\* The observations held by the grouping, key after key.
Filed == Concat([i \in DOMAIN all_forecasts |-> all_forecasts[i].v])

\* C21: in the grouping fetch_all_forecasts returns every key has a
\* non-empty list, every observation under key d has date d, and the
\* grouping holds each observation returned by an invoked provider exactly
\* as many times as it was returned, none filtered out and none added.
C21_GroupingIsUnfilteredUnion ==
    AfterFetch =>
        /\ \A i \in DOMAIN all_forecasts :
              /\ all_forecasts[i].v # <<>>
              /\ \A k \in DOMAIN all_forecasts[i].v :
                    all_forecasts[i].v[k].date = all_forecasts[i].k
        /\ \A i, j \in DOMAIN all_forecasts :
              i # j => all_forecasts[i].k # all_forecasts[j].k
        /\ SameObservations(Filed, ForecastObservations)

\* C21 witness: the returned grouping holds an observation of 0.0 inches
\* and two equal observations of one provider for one date.
C21_Witness ==
    /\ pc = "returned"
    /\ \E i \in DOMAIN Filed : Filed[i].snowfall_inches = 0
    /\ \E i, j \in DOMAIN Filed : i < j /\ Filed[i] = Filed[j]
    /\ Cardinality({Filed[i].source : i \in DOMAIN Filed}) >= 2

\* C22: NWS issues the grid-forecast request only after the grid-point
\* lookup has succeeded; a failed lookup gives an empty list after exactly
\* one request, a failed forecast request gives an empty list, and a lookup
\* response without the grid identifiers gives an empty list too.
C22_TwoStepProtocol ==
    (pc = "called" /\ DirectCall.provider = "NWS") =>
        /\ DirectCall.requests \in {1, 2}
        /\ DirectCall.requests = 2 => upstream.grid.kind \notin FailureKinds
        /\ upstream.grid.kind \in FailureKinds =>
              /\ DirectCall.status = "failed"
              /\ DirectCall.forecasts = <<>>
              /\ DirectCall.requests = 1
        /\ (upstream.grid.kind = "ok" /\ upstream.kind \in FailureKinds) =>
              /\ DirectCall.status = "failed"
              /\ DirectCall.forecasts = <<>>
        /\ upstream.grid.kind = "no_ids" =>
              /\ DirectCall.status # "raised"
              /\ DirectCall.forecasts = <<>>

\* The providers invoked by the run so far, in the order of their calls.
InvocationLog == [i \in DOMAIN ForecastCalls |-> ForecastCalls[i].provider]

ApplicableInOrder ==
    <<"Open-Meteo", "ECMWF">> \o (IF resort.country = "US" THEN <<"NWS">> ELSE <<>>)

\* C23: fetch_all_forecasts invokes the applicable providers one after
\* another in the order Open-Meteo, ECMWF, NWS: the calls made so far are
\* always the first entries of that order, each made once and completed
\* before the next, with no retry after a failure, and a run that returns
\* has invoked each applicable provider exactly once.
C23_SequentialInListOrder ==
    pc \notin {"start", "called"} =>
        /\ Len(InvocationLog) <= Len(ApplicableInOrder)
        /\ InvocationLog = SubSeq(ApplicableInOrder, 1, Len(InvocationLog))
        /\ pc = "loop" => Len(InvocationLog) = next_provider - 1
        /\ \A i \in DOMAIN ForecastCalls :
              ForecastCalls[i].status \in {"ok", "failed", "raised"}
        /\ AfterFetch => InvocationLog = ApplicableInOrder

\* C23 witness: a run for a US resort has returned after Open-Meteo
\* failed, and the log is Open-Meteo, ECMWF, NWS.
C23_Witness ==
    /\ pc = "returned"
    /\ InvocationLog = <<"Open-Meteo", "ECMWF", "NWS">>
    /\ ForecastCalls[1].status = "failed"
    /\ ForecastCalls[3].forecasts # <<>>

----------------------------------------------------------------------------
(* Claims about cache.py, checked under SpecCache. *)

Max(S) == CHOOSE x \in S : \A y \in S : y <= x

\* The position of the last set_cache_enabled call before position i of
\* the log, 0 when there is none.
LastSetBefore(i) ==
    Max({0} \cup {k \in 1..(i - 1) : trace[k].op = "set_cache_enabled"})

\* The value of the enabled flag when the event at position i happened.
FlagAt(i) ==
    IF LastSetBefore(i) = 0 THEN StartUp.enabled ELSE trace[LastSetBefore(i)].arg[1]

GetSessionAt(i) == i \in DOMAIN trace /\ trace[i].op = "get_session"

ConstructAt(i) == i \in DOMAIN trace /\ trace[i].op = "construct"

\* C24: between two calls of set_cache_enabled every get_session call
\* returns the same session object, and a session is constructed at most
\* once, by the first get_session after start-up or after a
\* set_cache_enabled.
C24_OneSessionPerSetting ==
    /\ \A i, j \in DOMAIN trace :
          (GetSessionAt(i) /\ GetSessionAt(j) /\ LastSetBefore(i) = LastSetBefore(j))
              => trace[i].session = trace[j].session
    /\ \A i, j \in DOMAIN trace :
          (ConstructAt(i) /\ ConstructAt(j) /\ LastSetBefore(i) = LastSetBefore(j))
              => i = j
    /\ \A i \in DOMAIN trace :
          ConstructAt(i) =>
              /\ GetSessionAt(i + 1)
              /\ \A k \in (LastSetBefore(i) + 1)..(i - 1) : ~GetSessionAt(k)

\* C24 witness: three get_session calls in a row after a set_cache_enabled
\* returned one object, constructed once.
C24_Witness ==
    \E i \in DOMAIN trace :
        /\ trace[i].op = "set_cache_enabled"
        /\ ConstructAt(i + 1)
        /\ GetSessionAt(i + 2) /\ GetSessionAt(i + 3) /\ GetSessionAt(i + 4)
        /\ trace[i + 4].session = trace[i + 2].session

\* C25: right after set_cache_enabled(x) the flag is x and no session is
\* held, whatever the state before the call.
C25_SetDiscardsSession ==
    (trace # <<>> /\ trace[Len(trace)].op = "set_cache_enabled") =>
        /\ cache.enabled = trace[Len(trace)].arg[1]
        /\ cache.session = <<>>

\* C25 witness: set_cache_enabled was called with the value the flag
\* already had while a session was held, and once more while none was.
C25_Witness ==
    /\ Len(trace) >= 4
    /\ GetSessionAt(Len(trace) - 2)
    /\ trace[Len(trace) - 1].op = "set_cache_enabled"
    /\ trace[Len(trace) - 1].arg[1] = FlagAt(Len(trace) - 1)
    /\ trace[Len(trace)].op = "set_cache_enabled"
    /\ cache.session = <<>>

IsCachingSession(s) ==
    /\ s.expire_after = 12 * 3600
    /\ s.allowable_codes = {200}
    /\ s.stale_if_error
    /\ ~s.disabled

IsDisabledSession(s) == s.expire_after = 0 /\ s.disabled

\* C26: a session held by the module, and every session get_session
\* returns, was constructed under the current value of the flag: it is a
\* caching session exactly when the flag is true and a disabled one
\* exactly when it is false, and it was constructed after the last
\* set_cache_enabled.
C26_SessionMatchesFlag ==
    /\ cache.session # <<>> =>
          /\ IsCachingSession(cache.session[1]) <=> cache.enabled
          /\ IsDisabledSession(cache.session[1]) <=> ~cache.enabled
    /\ \A i \in DOMAIN trace :
          GetSessionAt(i) =>
              /\ IsCachingSession(trace[i].session[1]) <=> FlagAt(i)
              /\ IsDisabledSession(trace[i].session[1]) <=> ~FlagAt(i)
              /\ \E k \in (LastSetBefore(i) + 1)..(i - 1) :
                    ConstructAt(k) /\ trace[k].session = trace[i].session

\* C26 witness: a caching session was returned, the cache was disabled,
\* and the next get_session returned a disabled session.
C26_Witness ==
    \E i \in DOMAIN trace :
        /\ GetSessionAt(i)
        /\ i + 3 \in DOMAIN trace
        /\ IsCachingSession(trace[i].session[1])
        /\ trace[i + 1].op = "set_cache_enabled"
        /\ trace[i + 1].arg = <<FALSE>>
        /\ GetSessionAt(i + 3)
        /\ IsDisabledSession(trace[i + 3].session[1])
        /\ cache.session = trace[i + 3].session

----------------------------------------------------------------------------
(* Claims about filter_resorts, checked under SpecFilter. *)

\* Two strs that differ at most in the case of their letters.
SameIgnoringCase(a, b) ==
    Len(a) = Len(b) /\ \A i \in DOMAIN a : a[i].l = b[i].l

ContainsIgnoringCase(sub, text) ==
    \E k \in 0..(Len(text) - Len(sub)) :
        \A i \in DOMAIN sub : sub[i].l = text[k + i].l

\* A filter that was supplied: not None and not the empty str.
Supplied(f) == f # <<>> /\ Len(f[1]) > 0

\* The region filter in force: region_filter, or state_filter when
\* region_filter is not supplied.
RegionInForce(call) ==
    IF Supplied(call.region_filter) THEN call.region_filter ELSE call.state_filter

Satisfies(r, call) ==
    /\ Supplied(call.name_filter) => ContainsIgnoringCase(call.name_filter[1], r.name)
    /\ Supplied(call.country_filter) => SameIgnoringCase(r.country, call.country_filter[1])
    /\ Supplied(RegionInForce(call)) => SameIgnoringCase(r.region, RegionInForce(call)[1])
    /\ Supplied(call.pass_filter) =>
          /\ Supplied(r.pass_type)
          /\ SameIgnoringCase(r.pass_type[1], call.pass_filter[1])

NoFilter(call) ==
    /\ ~Supplied(call.name_filter) /\ ~Supplied(call.country_filter)
    /\ ~Supplied(call.region_filter) /\ ~Supplied(call.pass_filter)
    /\ ~Supplied(call.state_filter)

\* C30: filter_resorts returns the resorts of the input that satisfy every
\* supplied filter, case ignored, in input order; all of them when no
\* filter is supplied; never a resort without a pass type under a pass
\* filter; and state_filter counts only when region_filter is not supplied.
C30_FilterIsConjunction ==
    pc = "filtered" =>
        /\ main.result = SelectSeq(main.resorts, LAMBDA r : Satisfies(r, main))
        /\ NoFilter(main) => main.result = main.resorts
        /\ Supplied(main.pass_filter) =>
              \A i \in DOMAIN main.result : Supplied(main.result[i].pass_type)
        /\ Supplied(main.region_filter) =>
              main.result = filter_resorts(main.resorts, main.name_filter,
                                main.country_filter, main.region_filter,
                                main.pass_filter, <<>>)

\* C30 witness: a call with a region filter and a different state filter,
\* a lower-case country filter and a pass filter kept one resort of two
\* and dropped one that has no pass type.
C30_Witness ==
    /\ pc = "filtered"
    /\ Supplied(main.region_filter) /\ Supplied(main.state_filter)
    /\ ~SameIgnoringCase(main.region_filter[1], main.state_filter[1])
    /\ main.country_filter = <<Small(<<"u", "s">>)>>
    /\ Supplied(main.pass_filter)
    /\ Len(main.resorts) = 2
    /\ Len(main.result) = 1
    /\ \E i \in DOMAIN main.resorts : ~Supplied(main.resorts[i].pass_type)

----------------------------------------------------------------------------
(* Claim about the timezone sent upstream, checked under Spec. *)

\* C29: every normalizer call that sends a timezone parameter upstream
\* sends the timezone of the resort it was called for.
C29_ResortTimezoneSent ==
    \A i \in DOMAIN calls :
        calls[i].timezone # <<>> => calls[i].timezone = <<resort.timezone>>

----------------------------------------------------------------------------
(* Claims about main, checked under SpecMain. *)

SetCacheEnabledCalls == SelectSeq(trace, LAMBDA e : e.op = "set_cache_enabled")
Requests == SelectSeq(trace, LAMBDA e : e.op = "request")
SessionEvents == SelectSeq(trace, LAMBDA e : e.op \in {"construct", "get_session"})

\* C27: with --no-cache main calls set_cache_enabled(False) once, as the
\* first thing it does: before load_resorts and before any session or
\* request; without --no-cache it never calls set_cache_enabled.  No
\* request of a --no-cache run goes through a caching session.
C27_NoCacheConfiguredFirst ==
    /\ ~main.args.no_cache => SetCacheEnabledCalls = <<>>
    /\ main.args.no_cache =>
          /\ SetCacheEnabledCalls =
                IF pc = "main_parsed" THEN <<>>
                ELSE << Event("set_cache_enabled", <<FALSE>>, <<>>) >>
          /\ trace # <<>> => trace[1].op = "set_cache_enabled"
          /\ \A i \in DOMAIN trace :
                trace[i].session # <<>> =>
                    /\ trace[i].session[1].disabled
                    /\ trace[i].session[1].expire_after = 0

\* C27 witness: a --no-cache run has returned after displaying two
\* resorts, with requests sent through a session.
C27_Witness ==
    /\ pc = "main_returned"
    /\ main.args.no_cache
    /\ Len(main.ran) = 2
    /\ \A i \in DOMAIN main.ran : main.ran[i].fn = "display_forecasts"
    /\ \E i \in DOMAIN Requests : Requests[i].session # <<>>
    /\ \E i \in DOMAIN Requests : Requests[i].session = <<>>

RequestsOf(name, method) ==
    SelectSeq(Requests, LAMBDA e : e.arg = <<name, method>>)

RanOf(fn) == SelectSeq(main.ran, LAMBDA e : e.fn = fn)

\* No resort of the loaded file passes the filters of the command line.
NoResortMatches ==
    /\ main.file.kind = "ok"
    /\ \A i \in DOMAIN main.file.resorts :
          LET r == main.file.resorts[i] IN
          \/ /\ Supplied(main.args.resort)
             /\ ~ContainsIgnoringCase(main.args.resort[1], r.name)
          \/ /\ Supplied(main.args.state)
             /\ ~SameIgnoringCase(r.region, main.args.state[1])
          \/ /\ Supplied(main.args.pass_type)
             /\ ~(Supplied(r.pass_type)
                  /\ SameIgnoringCase(r.pass_type[1], main.args.pass_type[1]))

MainEnded == pc \in {"main_exit", "main_returned", "main_raised"}

C28_WitnessNoFetch ==
    \/ /\ pc = "main_returned" /\ main.args.list /\ main.args.export_json
       /\ main.ran = << Ran("list_resorts", 0) >> /\ Requests = <<>>
    \/ /\ pc = "main_exit" /\ NoResortMatches /\ main.file.resorts # <<>>
       /\ main.exit = <<0>>

============================================================================
